---------------------------- MODULE Spec2Model ----------------------------
(***************************************************************************)
(* A model of mirafetch's Linux and macOS probes (src/info/linuxinfo.rs,   *)
(* src/info/macinfo.rs): the os-release cache behind os() and id(), the    *)
(* interface-address walk of ip(), the mount-table scan of disks(), and    *)
(* the text parsers of memory() and cpu().                                 *)
(*                                                                         *)
(* Strings are sequences of one-character strings, so that split_once,     *)
(* trim, trim_matches, starts_with and the regular expressions are         *)
(* computed character by character as the code computes them.              *)
(***************************************************************************)
EXTENDS Integers, Sequences, FiniteSets, TLC

VARIABLES
    \* ---- os-release cache (linuxinfo.rs:26-77, 345-348) ----
    osReleaseFile,   \* /etc/os-release: [readable |-> BOOLEAN, text |-> chars]
    machine,         \* uts.machine()
    once,            \* the static OS_RELEASE: Once
    closureRuns,     \* how many times the call_once closure was entered
    populator,       \* the probe whose closure ran (NoProbe before)
    os_release,      \* per probe: the FxHashMap, a set of <<key, value>>
    writer,          \* per probe: the thread holding the write guard
    readers,         \* per probe: number of read guards held
    poisoned,        \* per probe: the RwLock is poisoned
    pc,              \* per thread: position in os() / id()
    probe,           \* per thread: the probe (self) of its current call
    query,           \* per thread: "os" or "id"
    calls,           \* per thread: number of queries issued so far
    waited,          \* per thread: it blocked in call_once on a running Once
    pending,         \* per thread: parsed pairs not yet inserted
    obs,             \* per thread: the map contents its read guard saw
    result,          \* per thread: outcome of its current / last query
    \* ---- ip() (linuxinfo.rs:222-279, macinfo.rs:139-193) ----
    platform,        \* "linux" or "macos"
    ifaddrs,         \* the list getifaddrs returned
    addrs,           \* cursor into ifaddrs (Len+1 is the null pointer)
    ipv4_addrs,      \* FxHashSet<Ipv4Addr>, as its list of elements
    ipv6_addrs,      \* FxHashSet<Ipv6Addr>, as its list of elements
    ipPc,
    \* ---- disks() (linuxinfo.rs:280-325) ----
    mounts,          \* lines of /proc/mounts still to process
    mountLine,       \* the line being processed
    statbuf,         \* what statvfs left in buf for that line
    debugBuild,      \* overflow checks on (debug) or off (release)
    diskOut,         \* outcome for the line being processed
    diskPc,
    \* ---- memory() (linuxinfo.rs:208-221) ----
    meminfo,         \* /proc/meminfo: [readable, text]
    memOut,
    memPc,
    \* ---- cpu() (linuxinfo.rs:162-179) ----
    cpuinfo,         \* /proc/cpuinfo: [readable, text]
    cpuOut,
    cpuPc

releaseVars == <<osReleaseFile, machine, once, closureRuns, populator,
                 os_release, writer, readers, poisoned, pc, probe, query,
                 calls, waited, pending, obs, result>>
ipVars == <<platform, ifaddrs, addrs, ipv4_addrs, ipv6_addrs, ipPc>>
diskVars == <<mounts, mountLine, statbuf, diskOut, diskPc>>
memVars == <<meminfo, memOut, memPc>>
cpuVars == <<cpuinfo, cpuOut, cpuPc>>
vars == <<releaseVars, ipVars, diskVars, memVars, cpuVars, debugBuild>>

\* What each probe operation leaves alone
notRelease == <<ipVars, diskVars, memVars, cpuVars, debugBuild>>
notIp == <<releaseVars, diskVars, memVars, cpuVars, debugBuild>>
notDisks == <<releaseVars, ipVars, memVars, cpuVars, debugBuild>>
notMemory == <<releaseVars, ipVars, diskVars, cpuVars, debugBuild>>
notCpu == <<releaseVars, ipVars, diskVars, memVars, debugBuild>>

-----------------------------------------------------------------------------
(* Bounds of the model.                                                    *)

MaxLines == 2      \* lines drawn freely into a generated text file
MaxCalls == 2      \* queries one thread issues
MaxRecords == 3    \* length of the interface-address list
MaxMountLines == 2 \* lines of the mount table
MaxTextLines == 3  \* lines of /proc/meminfo and /proc/cpuinfo
WordBits == 12     \* u64 is scaled down to this many bits

-----------------------------------------------------------------------------
(* String primitives of the Rust standard library.                         *)

NL == "\n"
Whitespace == {" ", "\t", "\n", "\r"}

\* str::starts_with
StartsWith(s, p) ==
    /\ Len(s) >= Len(p)
    /\ SubSeq(s, 1, Len(p)) = p

\* str::find(char): index of the first occurrence, 0 when there is none
IndexOf(s, c) ==
    IF \E i \in 1..Len(s) : s[i] = c
    THEN CHOOSE i \in 1..Len(s) : s[i] = c /\ \A j \in 1..(i - 1) : s[j] # c
    ELSE 0

\* str::contains(&str); an unanchored literal regex alternative
Contains(s, sub) ==
    \E i \in 1..(Len(s) - Len(sub) + 1) : SubSeq(s, i, i + Len(sub) - 1) = sub

\* str::split_once(char): [some |-> FALSE] is None
SplitOnce(s, c) ==
    LET i == IndexOf(s, c)
    IN  IF i = 0 THEN [some |-> FALSE, l |-> <<>>, r |-> <<>>]
        ELSE [some |-> TRUE, l |-> SubSeq(s, 1, i - 1), r |-> SubSeq(s, i + 1, Len(s))]

RECURSIVE TrimStartIn(_, _)
TrimStartIn(s, cs) ==
    IF s # <<>> /\ Head(s) \in cs THEN TrimStartIn(Tail(s), cs) ELSE s

RECURSIVE TrimEndIn(_, _)
TrimEndIn(s, cs) ==
    IF s # <<>> /\ s[Len(s)] \in cs THEN TrimEndIn(SubSeq(s, 1, Len(s) - 1), cs) ELSE s

\* str::trim_matches(char): strips EVERY leading and trailing occurrence
TrimMatches(s, c) == TrimEndIn(TrimStartIn(s, {c}), {c})

\* str::trim
Trim(s) == TrimEndIn(TrimStartIn(s, Whitespace), Whitespace)

\* str::lines: split at "\n", a final empty piece is not a line, and a
\* trailing "\r" of a line is dropped
RECURSIVE SplitNL(_)
SplitNL(s) ==
    LET i == IndexOf(s, NL)
    IN  IF i = 0 THEN <<s>>
        ELSE <<SubSeq(s, 1, i - 1)>> \o SplitNL(SubSeq(s, i + 1, Len(s)))

StripCR(l) == IF l # <<>> /\ l[Len(l)] = "\r" THEN SubSeq(l, 1, Len(l) - 1) ELSE l

Lines(s) ==
    LET pieces == SplitNL(s)
        kept == IF pieces[Len(pieces)] = <<>>
                THEN SubSeq(pieces, 1, Len(pieces) - 1) ELSE pieces
    IN  [i \in 1..Len(kept) |-> StripCR(kept[i])]

\* All sequences over S of length at most n
SeqsUpTo(S, n) == UNION {[1..k -> S] : k \in 0..n}

\* The text of a file made of the given lines, each ended by a newline
\* except, when endNL is FALSE, the last
RECURSIVE JoinLines(_, _)
JoinLines(ls, endNL) ==
    IF ls = <<>> THEN <<>>
    ELSE IF Len(ls) = 1 THEN Head(ls) \o (IF endNL THEN <<NL>> ELSE <<>>)
    ELSE Head(ls) \o <<NL>> \o JoinLines(Tail(ls), endNL)

Unreadable == [readable |-> FALSE, text |-> <<>>]
Readable(t) == [readable |-> TRUE, text |-> t]

-----------------------------------------------------------------------------
(* The os-release cache: LinuxInfo, OS_RELEASE, get_os_release, os, id.    *)

Threads == {"t1", "t2"}
Probes == {"a", "b"}
NoThread == "none"
NoProbe == "none"

K_NAME == <<"N", "A", "M", "E">>
K_VERSION == <<"V", "E", "R", "S", "I", "O", "N">>
K_ID == <<"I", "D">>

\* Lines a release descriptor is made of (L_VERSION in the example only)
L_NAME == <<"N", "A", "M", "E", "=", "\"", "U", "b", "u", "n", "t", "u", "\"">>
L_VERSION == <<"V", "E", "R", "S", "I", "O", "N", "=", "\"", "2", "2", ".", "0", "4", "\"">>
L_ID == <<"I", "D", "=", "u", "b", "u", "n", "t", "u">>
L_EMPTY == <<>>
L_QQ == <<"K", "=", "\"", "\"", "v", "\"", "\"">>
L_NOEQ == <<"b", "a", "d">>
ReleaseLines == {L_NAME, L_ID, L_EMPTY, L_QQ, L_NOEQ}

ExampleRelease == Readable(JoinLines(<<L_NAME, L_VERSION, L_ID>>, TRUE))

ReleaseFiles ==
    {Unreadable, ExampleRelease}
    \cup {Readable(JoinLines(ls, nl)) :
            ls \in SeqsUpTo(ReleaseLines, MaxLines), nl \in BOOLEAN}

Machines == {<<"x", "8", "6", "_", "6", "4">>}

\* FxHashMap operations, on a set of <<key, value>> pairs with unique keys
MapHas(m, k) == \E e \in m : e[1] = k
MapGet(m, k) == (CHOOSE e \in m : e[1] = k)[2]
MapInsert(m, e) == {x \in m : x[1] # e[1]} \cup {e}

RECURSIVE MapExtend(_, _)
MapExtend(m, es) ==
    IF es = <<>> THEN m ELSE MapExtend(MapInsert(m, Head(es)), Tail(es))

\* The closure of par_lines().map(..): split_once('=').unwrap(), then
\* (x, y.trim_matches('"')); ok = FALSE is the unwrap's panic
ParseLine(line) ==
    LET sp == SplitOnce(line, "=")
    IN  IF sp.some
        THEN [ok |-> TRUE, kv |-> <<sp.l, TrimMatches(sp.r, "\"")>>]
        ELSE [ok |-> FALSE, kv |-> <<>>]

ParseAll(text) == [i \in 1..Len(Lines(text)) |-> ParseLine(Lines(text)[i])]
ParsePanics(text) == \E i \in 1..Len(ParseAll(text)) : ~ParseAll(text)[i].ok
ParsedPairs(text) == [i \in 1..Len(ParseAll(text)) |-> ParseAll(text)[i].kv]

\* What std::sync::Once::call_once does in each state of the Once
\* A call_once that does not wait for a running closure
CallOnceRacy(st) ==
    CASE st = "INCOMPLETE" -> "run"
      [] st = "RUNNING" -> "pass"
      [] st = "COMPLETE" -> "pass"
      [] st = "POISONED" -> "panic"

CallOnceOutcome(st) ==
    CASE st = "INCOMPLETE" -> "run"
      [] st = "RUNNING" -> "wait"
      [] st = "COMPLETE" -> "pass"
      [] st = "POISONED" -> "panic"

NoResult == [kind |-> "none", v |-> <<>>]
Panic == [kind |-> "panic", v |-> <<>>]
Absent == [kind |-> "absent", v |-> <<>>]
Value(s) == [kind |-> "value", v |-> s]
NoObs == [seen |-> FALSE, m |-> {}]

\* os(), lines 67-76: NAME + (" VERSION " or "") + machine
OsString(m) ==
    MapGet(m, K_NAME)
    \o (IF MapHas(m, K_VERSION) THEN <<" ">> \o MapGet(m, K_VERSION) \o <<" ">> ELSE <<>>)
    \o machine

ReleaseInit ==
    /\ osReleaseFile \in ReleaseFiles
    /\ machine \in Machines
    /\ once = "INCOMPLETE"
    /\ closureRuns = 0
    /\ populator = NoProbe
    /\ os_release = [p \in Probes |-> {}]
    /\ writer = [p \in Probes |-> NoThread]
    /\ readers = [p \in Probes |-> 0]
    /\ poisoned = [p \in Probes |-> FALSE]
    /\ pc = [t \in Threads |-> "idle"]
    /\ probe = [t \in Threads |-> "a"]
    /\ query = [t \in Threads |-> "os"]
    /\ calls = [t \in Threads |-> 0]
    /\ waited = [t \in Threads |-> FALSE]
    /\ pending = [t \in Threads |-> <<>>]
    /\ obs = [t \in Threads |-> NoObs]
    /\ result = [t \in Threads |-> NoResult]

\* A thread calls os() or id() on a probe, line 66 / 346: its first query,
\* or the next one after a query that returned
Call(t, p, q) ==
    /\ pc[t] \in {"idle", "done"}
    /\ calls[t] < MaxCalls
    /\ pc' = [pc EXCEPT ![t] = "call_once"]
    /\ probe' = [probe EXCEPT ![t] = p]
    /\ query' = [query EXCEPT ![t] = q]
    /\ calls' = [calls EXCEPT ![t] = @ + 1]
    /\ waited' = [waited EXCEPT ![t] = FALSE]
    /\ obs' = [obs EXCEPT ![t] = NoObs]
    /\ result' = [result EXCEPT ![t] = NoResult]
    /\ UNCHANGED <<osReleaseFile, machine, once, closureRuns, populator,
                   os_release, writer, readers, poisoned, pending>>
    /\ UNCHANGED notRelease

\* OS_RELEASE.call_once, line 46: this thread is the one to run the closure
OnceEnter(t) ==
    /\ pc[t] \in {"call_once", "waiting"}
    /\ CallOnceOutcome(once) = "run"
    /\ once' = "RUNNING"
    /\ closureRuns' = closureRuns + 1
    /\ populator' = probe[t]
    /\ pc' = [pc EXCEPT ![t] = "closure"]
    /\ UNCHANGED <<osReleaseFile, machine, os_release, writer, readers,
                   poisoned, probe, query, calls, waited, pending, obs, result>>
    /\ UNCHANGED notRelease

\* call_once while another thread runs the closure: the thread parks
OnceWait(t) ==
    /\ pc[t] = "call_once"
    /\ CallOnceOutcome(once) = "wait"
    /\ pc' = [pc EXCEPT ![t] = "waiting"]
    /\ waited' = [waited EXCEPT ![t] = TRUE]
    /\ UNCHANGED <<osReleaseFile, machine, once, closureRuns, populator,
                   os_release, writer, readers, poisoned, probe, query,
                   calls, pending, obs, result>>
    /\ UNCHANGED notRelease

\* call_once on a completed Once returns at once
OncePass(t) ==
    /\ pc[t] \in {"call_once", "waiting"}
    /\ CallOnceOutcome(once) = "pass"
    /\ pc' = [pc EXCEPT ![t] = "read"]
    /\ UNCHANGED <<osReleaseFile, machine, once, closureRuns, populator,
                   os_release, writer, readers, poisoned, probe, query,
                   calls, waited, pending, obs, result>>
    /\ UNCHANGED notRelease

\* call_once on a poisoned Once panics
OncePoisoned(t) ==
    /\ pc[t] \in {"call_once", "waiting"}
    /\ CallOnceOutcome(once) = "panic"
    /\ pc' = [pc EXCEPT ![t] = "panicked"]
    /\ result' = [result EXCEPT ![t] = Panic]
    /\ UNCHANGED <<osReleaseFile, machine, once, closureRuns, populator,
                   os_release, writer, readers, poisoned, probe, query,
                   calls, waited, pending, obs>>
    /\ UNCHANGED notRelease

\* line 47: if self.os_release.read().unwrap().is_empty()
ClosureCheck(t) ==
    /\ pc[t] = "closure"
    /\ writer[probe[t]] = NoThread
    /\ IF poisoned[probe[t]]
       THEN /\ once' = "POISONED"
            /\ pc' = [pc EXCEPT ![t] = "panicked"]
            /\ result' = [result EXCEPT ![t] = Panic]
       ELSE /\ pc' = [pc EXCEPT ![t] =
                        IF os_release[probe[t]] = {} THEN "read_file" ELSE "once_done"]
            /\ UNCHANGED <<once, result>>
    /\ UNCHANGED <<osReleaseFile, machine, closureRuns, populator, os_release,
                   writer, readers, poisoned, probe, query, calls, waited,
                   pending, obs>>
    /\ UNCHANGED notRelease

\* line 48: fs::read_to_string("/etc/os-release").ok().unwrap()
ReadFile(t) ==
    /\ pc[t] = "read_file"
    /\ IF osReleaseFile.readable
       THEN /\ pc' = [pc EXCEPT ![t] = "write"]
            /\ UNCHANGED <<once, result>>
       ELSE /\ once' = "POISONED"
            /\ pc' = [pc EXCEPT ![t] = "panicked"]
            /\ result' = [result EXCEPT ![t] = Panic]
    /\ UNCHANGED <<osReleaseFile, machine, closureRuns, populator, os_release,
                   writer, readers, poisoned, probe, query, calls, waited,
                   pending, obs>>
    /\ UNCHANGED notRelease

\* lines 49-51: self.os_release.write().unwrap()
WriteLock(t) ==
    /\ pc[t] = "write"
    /\ writer[probe[t]] = NoThread
    /\ readers[probe[t]] = 0
    /\ IF poisoned[probe[t]]
       THEN /\ once' = "POISONED"
            /\ pc' = [pc EXCEPT ![t] = "panicked"]
            /\ result' = [result EXCEPT ![t] = Panic]
            /\ UNCHANGED writer
       ELSE /\ writer' = [writer EXCEPT ![probe[t]] = t]
            /\ pc' = [pc EXCEPT ![t] = "parse"]
            /\ UNCHANGED <<once, result>>
    /\ UNCHANGED <<osReleaseFile, machine, closureRuns, populator, os_release,
                   readers, poisoned, probe, query, calls, waited, pending, obs>>
    /\ UNCHANGED notRelease

\* lines 52-58: the parallel map over the lines, collected before the map is
\* touched; a line without '=' panics with the write guard held, which
\* poisons the lock and the Once
ParseLines(t) ==
    /\ pc[t] = "parse"
    /\ IF ParsePanics(osReleaseFile.text)
       THEN /\ poisoned' = [poisoned EXCEPT ![probe[t]] = TRUE]
            /\ writer' = [writer EXCEPT ![probe[t]] = NoThread]
            /\ once' = "POISONED"
            /\ pc' = [pc EXCEPT ![t] = "panicked"]
            /\ result' = [result EXCEPT ![t] = Panic]
            /\ UNCHANGED pending
       ELSE /\ pending' = [pending EXCEPT ![t] = ParsedPairs(osReleaseFile.text)]
            /\ pc' = [pc EXCEPT ![t] = "extend"]
            /\ UNCHANGED <<poisoned, writer, once, result>>
    /\ UNCHANGED <<osReleaseFile, machine, closureRuns, populator, os_release,
                   readers, probe, query, calls, waited, obs>>
    /\ UNCHANGED notRelease

\* par_extend inserting one collected pair
Insert(t) ==
    /\ pc[t] = "extend"
    /\ pending[t] # <<>>
    /\ os_release' = [os_release EXCEPT ![probe[t]] = MapInsert(@, Head(pending[t]))]
    /\ pending' = [pending EXCEPT ![t] = Tail(@)]
    /\ UNCHANGED <<osReleaseFile, machine, once, closureRuns, populator,
                   writer, readers, poisoned, pc, probe, query, calls, waited,
                   obs, result>>
    /\ UNCHANGED notRelease

\* end of the statement at line 58: the write guard is dropped
Unlock(t) ==
    /\ pc[t] = "extend"
    /\ pending[t] = <<>>
    /\ writer' = [writer EXCEPT ![probe[t]] = NoThread]
    /\ pc' = [pc EXCEPT ![t] = "once_done"]
    /\ UNCHANGED <<osReleaseFile, machine, once, closureRuns, populator,
                   os_release, readers, poisoned, probe, query, calls, waited,
                   pending, obs, result>>
    /\ UNCHANGED notRelease

\* line 60: the closure returns, the Once completes
OnceComplete(t) ==
    /\ pc[t] = "once_done"
    /\ once' = "COMPLETE"
    /\ pc' = [pc EXCEPT ![t] = "read"]
    /\ UNCHANGED <<osReleaseFile, machine, closureRuns, populator, os_release,
                   writer, readers, poisoned, probe, query, calls, waited,
                   pending, obs, result>>
    /\ UNCHANGED notRelease

\* os() line 68: read().unwrap().get("NAME")?   id() line 347:
\* read().unwrap().get("ID").unwrap().clone()
ReadMap(t) ==
    LET m == os_release[probe[t]] IN
    /\ pc[t] = "read"
    /\ writer[probe[t]] = NoThread
    /\ IF poisoned[probe[t]]
       THEN /\ pc' = [pc EXCEPT ![t] = "panicked"]
            /\ result' = [result EXCEPT ![t] = Panic]
            /\ UNCHANGED <<obs, readers>>
       ELSE /\ obs' = [obs EXCEPT ![t] = [seen |-> TRUE, m |-> m]]
            /\ IF query[t] = "os"
               THEN IF MapHas(m, K_NAME)
                    THEN /\ pc' = [pc EXCEPT ![t] = "read_version"]
                         /\ readers' = [readers EXCEPT ![probe[t]] = @ + 1]
                         /\ UNCHANGED result
                    ELSE /\ pc' = [pc EXCEPT ![t] = "done"]
                         /\ result' = [result EXCEPT ![t] = Absent]
                         /\ UNCHANGED readers
               ELSE IF MapHas(m, K_ID)
                    THEN /\ pc' = [pc EXCEPT ![t] = "done"]
                         /\ result' = [result EXCEPT ![t] = Value(MapGet(m, K_ID))]
                         /\ UNCHANGED readers
                    ELSE /\ pc' = [pc EXCEPT ![t] = "panicked"]
                         /\ result' = [result EXCEPT ![t] = Panic]
                         /\ UNCHANGED readers
    /\ UNCHANGED <<osReleaseFile, machine, once, closureRuns, populator,
                   os_release, writer, poisoned, probe, query, calls, waited,
                   pending>>
    /\ UNCHANGED notRelease

\* os() lines 69-76: the second read guard, the VERSION part and the machine
ReadVersion(t) ==
    /\ pc[t] = "read_version"
    /\ writer[probe[t]] = NoThread
    /\ readers' = [readers EXCEPT ![probe[t]] = @ - 1]
    /\ result' = [result EXCEPT ![t] = Value(OsString(os_release[probe[t]]))]
    /\ pc' = [pc EXCEPT ![t] = "done"]
    /\ UNCHANGED <<osReleaseFile, machine, once, closureRuns, populator,
                   os_release, writer, poisoned, probe, query, calls, waited,
                   pending, obs>>
    /\ UNCHANGED notRelease

ReleaseNext ==
    \E t \in Threads :
        \/ \E p \in Probes, q \in {"os", "id"} : Call(t, p, q)
        \/ OnceEnter(t)
        \/ OnceWait(t)
        \/ OncePass(t)
        \/ OncePoisoned(t)
        \/ ClosureCheck(t)
        \/ ReadFile(t)
        \/ WriteLock(t)
        \/ ParseLines(t)
        \/ Insert(t)
        \/ Unlock(t)
        \/ OnceComplete(t)
        \/ ReadMap(t)
        \/ ReadVersion(t)

-----------------------------------------------------------------------------
(* ip(): the walk over the list getifaddrs returned.                       *)

\* libc flag bits
IFF_LOOPBACK == 8
IFF_RUNNING == 64
IFA_F_DEPRECATED == 32

\* flags & bit != 0, for a bit that is a power of two
HasBit(flags, bit) == (flags \div bit) % 2 = 1

Reverse(s) == [i \in 1..Len(s) |-> s[Len(s) + 1 - i]]

\* A u32 is its four bytes, most significant first.  sin_addr.s_addr holds
\* the address in network order; a little-endian load makes the first byte
\* in memory the least significant.
LoadU32(mem) == Reverse(mem)
SwapBytes(w) == Reverse(w)
\* Ipv4Addr::from(u32): the octets are the big-endian bytes of the integer
Ipv4FromU32(w) == w

\* Interface addresses, as the bytes of sin_addr / sin6_addr in memory
V4_LAN == <<10, 0, 0, 1>>
V6_GLOBAL == <<32, 1, 13, 184, 0, 0, 0, 0, 0, 0, 0, 0, 0, 0, 0, 1>>
V6_FE80 == <<254, 128, 0, 0, 0, 0, 0, 0, 0, 0, 0, 0, 0, 0, 0, 1>>
V6_FE90 == <<254, 144, 0, 0, 0, 0, 0, 0, 0, 0, 0, 0, 0, 0, 0, 1>>

FlagSets == {0, IFF_RUNNING, IFF_RUNNING + IFF_LOOPBACK, IFF_RUNNING + IFA_F_DEPRECATED}

\* struct ifaddrs: ifa_addr (null or a sockaddr with family and bytes),
\* ifa_flags; ifa_next is the position in the list
IfRecords ==
    [null : {TRUE}, flags : FlagSets, family : {"AF_PACKET"}, bytes : {<<>>}]
    \cup [null : {FALSE}, flags : FlagSets, family : {"AF_INET"}, bytes : {V4_LAN}]
    \cup [null : {FALSE}, flags : FlagSets, family : {"AF_INET6"},
          bytes : {V6_GLOBAL, V6_FE80, V6_FE90}]
    \cup [null : {FALSE}, flags : FlagSets, family : {"AF_PACKET"}, bytes : {<<>>}]

Range(s) == {s[i] : i \in 1..Len(s)}

\* FxHashSet::insert on the list of the set's elements
HashSetInsert(set, x) == IF x \in Range(set) THEN set ELSE Append(set, x)

\* The four `continue` tests of the loop, lines 229-244 (Linux) and 147-158
\* (macOS, which has no IFA_F_DEPRECATED test)
Skipped(r) ==
    \/ r.null
    \/ ~HasBit(r.flags, IFF_RUNNING)
    \/ HasBit(r.flags, IFF_LOOPBACK)
    \/ (platform = "linux" /\ HasBit(r.flags, IFA_F_DEPRECATED))

\* ipv6.starts_with(&[0xfe, 0x80])
StartsWithFe80(b) == StartsWith(b, <<254, 128>>)

IpInit ==
    /\ platform \in {"linux", "macos"}
    /\ ifaddrs \in SeqsUpTo(IfRecords, MaxRecords)
    /\ addrs = 0
    /\ ipv4_addrs = <<>>
    /\ ipv6_addrs = <<>>
    /\ ipPc = "start"

\* getifaddrs(addrs.as_mut_ptr()): addrs points at the head of the list
Getifaddrs ==
    /\ ipPc = "start"
    /\ addrs' = 1
    /\ ipPc' = "walk"
    /\ UNCHANGED <<platform, ifaddrs, ipv4_addrs, ipv6_addrs>>
    /\ UNCHANGED notIp

\* One iteration of `while let Some(addr) = addrs.assume_init().as_ref()`
WalkRecord ==
    /\ ipPc = "walk"
    /\ addrs <= Len(ifaddrs)
    /\ LET r == ifaddrs[addrs] IN
       IF Skipped(r)
       THEN UNCHANGED <<ipv4_addrs, ipv6_addrs>>
       ELSE /\ ipv4_addrs' =
                 IF r.family = "AF_INET"
                 THEN HashSetInsert(ipv4_addrs, Ipv4FromU32(SwapBytes(LoadU32(r.bytes))))
                 ELSE ipv4_addrs
            /\ ipv6_addrs' =
                 IF r.family = "AF_INET6" /\ ~StartsWithFe80(r.bytes)
                 THEN HashSetInsert(ipv6_addrs, r.bytes)
                 ELSE ipv6_addrs
    /\ addrs' = addrs + 1
    /\ UNCHANGED <<platform, ifaddrs, ipPc>>
    /\ UNCHANGED notIp

\* The cursor is null: the loop ends; the vec! of lines 267-278 is the
\* rendering of ipv4_addrs, ipv6_addrs is dropped
WalkEnd ==
    /\ ipPc = "walk"
    /\ addrs = Len(ifaddrs) + 1
    /\ ipPc' = "done"
    /\ UNCHANGED <<platform, ifaddrs, addrs, ipv4_addrs, ipv6_addrs>>
    /\ UNCHANGED notIp

IpNext == Getifaddrs \/ WalkRecord \/ WalkEnd

-----------------------------------------------------------------------------
(* disks(): the mount-table filter and the usage arithmetic.               *)

WordMax == 2^WordBits - 1

P_DEV == <<"/", "d", "e", "v", "/">>
P_LOOP == <<"/", "d", "e", "v", "/", "l", "o", "o", "p">>
P_RAM == <<"/", "d", "e", "v", "/", "r", "a", "m">>
P_FD == <<"/", "d", "e", "v", "/", "f", "d">>
P_SNAP == <<"/", "v", "a", "r", "/", "s", "n", "a", "p">>
P_RPOOL == <<"/", "r", "p", "o", "o", "l", "/">>
P_DRVFS == <<"d", "r", "v", "f", "s">>

Devices == {<<"/", "d", "e", "v", "/", "s", "d", "a", "1">>,
            <<"/", "d", "e", "v", "/", "l", "o", "o", "p", "0">>,
            <<"/", "d", "e", "v", "/", "r", "a", "m", "0">>,
            <<"/", "d", "e", "v", "/", "f", "d", "0">>,
            <<"/", "r", "p", "o", "o", "l", "/", "d">>,
            <<"d", "r", "v", "f", "s">>,
            <<"t", "m", "p", "f", "s">>}
MountPaths == {<<"/">>,
               <<"/", "v", "a", "r", "/", "s", "n", "a", "p", "/", "f">>,
               <<"/", "r", "p", "o", "o", "l", "/", "d">>,
               <<"/", "m", "/", "v", "a", "r", "/", "s", "n", "a", "p">>}
FsType == <<"e", "x", "t", "4">>

\* Lines of /proc/mounts: "device mount fstype", one with a leading blank,
\* one with two fields only
MountLines ==
    {d \o <<" ">> \o m \o <<" ">> \o FsType : d \in Devices, m \in MountPaths}
    \cup {<<" ", "/", "d", "e", "v", "/", "s", "d", "a", "1", " ", "/", " ", "e", "x", "t", "4">>,
          <<"/", "d", "e", "v", "/", "s", "d", "a", "1", " ", "/">>}

\* Regex (^/dev/(loop|ram|fd))|(/var/snap), line 283, matched on the line
RegexIsMatch(line) ==
    \/ StartsWith(line, P_LOOP)
    \/ StartsWith(line, P_RAM)
    \/ StartsWith(line, P_FD)
    \/ Contains(line, P_SNAP)

\* The filter with the pool/passthrough test ahead of the regex
DiskFilterPrefixFirst(line) ==
    IF StartsWith(line, P_RPOOL) \/ StartsWith(line, P_DRVFS) THEN TRUE
    ELSE IF RegexIsMatch(line) THEN FALSE
    ELSE StartsWith(line, P_DEV)

\* The first filter_map, lines 285-297: TRUE when the line is kept
DiskFilter(line) ==
    IF RegexIsMatch(line) THEN FALSE
    ELSE IF StartsWith(line, P_RPOOL) \/ StartsWith(line, P_DRVFS) THEN TRUE
    ELSE StartsWith(line, P_DEV)

\* str::split_ascii_whitespace
RECURSIVE Fields(_)
Fields(s) ==
    LET t == TrimStartIn(s, Whitespace)
        n == IF \E i \in 1..Len(t) : t[i] \in Whitespace
             THEN (CHOOSE i \in 1..Len(t) :
                      t[i] \in Whitespace /\ \A j \in 1..(i - 1) : t[j] \notin Whitespace) - 1
             ELSE Len(t)
    IN  IF t = <<>> THEN <<>>
        ELSE <<SubSeq(t, 1, n)>> \o Fields(SubSeq(t, n + 1, Len(t)))

StatValues == {0, 1, 2, 3, 2^(WordBits - 1), WordMax}
StatBufs == [f_blocks : StatValues, f_bavail : StatValues, f_bsize : StatValues]
NoStat == [f_blocks |-> 0, f_bavail |-> 0, f_bsize |-> 0]

DiskNone == [kind |-> "none", mount |-> <<>>, used |-> 0, total |-> 0]
DiskDropped(why) == [kind |-> why, mount |-> <<>>, used |-> 0, total |-> 0]

\* u64::checked_mul: [some |-> FALSE] on overflow
CheckedMul(a, b) ==
    IF a * b > WordMax THEN [some |-> FALSE, v |-> 0] ELSE [some |-> TRUE, v |-> a * b]

\* lines 306-321, for the values statvfs left in buf
Usage(buf, mount, debug) ==
    LET total == buf.f_blocks
        block_size == buf.f_bsize
    IN  IF buf.f_bavail > total THEN DiskDropped("underflow")
        ELSE LET size_used == total - buf.f_bavail IN
             IF size_used = 0 THEN DiskDropped("zero")
             ELSE IF ~CheckedMul(size_used, block_size).some THEN DiskDropped("overflow")
             ELSE IF total * block_size > WordMax /\ debug THEN DiskDropped("panic")
             ELSE [kind |-> "emit", mount |-> mount,
                   used |-> CheckedMul(size_used, block_size).v,
                   total |-> (total * block_size) % (WordMax + 1)]

DiskInit ==
    /\ mounts \in [readable : BOOLEAN, left : 0..MaxMountLines]
    /\ mountLine = <<>>
    /\ statbuf = NoStat
    /\ diskOut = DiskNone
    /\ diskPc = "start"

\* line 282: fs::read_to_string("/proc/mounts").ok()?
ReadMounts ==
    /\ diskPc = "start"
    /\ diskPc' = IF mounts.readable THEN "lines" ELSE "done"
    /\ UNCHANGED <<mounts, mountLine, statbuf, diskOut>>
    /\ UNCHANGED notDisks

\* One line through the first filter_map and the let-else of line 299
FilterLine(line) ==
    /\ diskPc = "lines"
    /\ mounts.left > 0
    /\ mounts' = [mounts EXCEPT !.left = @ - 1]
    /\ mountLine' = line
    /\ statbuf' = NoStat
    /\ IF ~DiskFilter(line)
       THEN diskOut' = DiskDropped("filtered") /\ diskPc' = "lines"
       ELSE IF Len(Fields(line)) < 3
       THEN diskOut' = DiskDropped("short") /\ diskPc' = "lines"
       ELSE diskOut' = DiskDropped("candidate") /\ diskPc' = "statvfs"
    /\ UNCHANGED notDisks

\* line 305: statvfs fills buf (or, failing, leaves the fresh allocation as
\* it was: any values)
Statvfs(buf) ==
    /\ diskPc = "statvfs"
    /\ statbuf' = buf
    /\ diskPc' = "usage"
    /\ UNCHANGED <<mounts, mountLine, diskOut>>
    /\ UNCHANGED notDisks

\* lines 306-321
ComputeUsage ==
    /\ diskPc = "usage"
    /\ diskOut' = Usage(statbuf, Fields(mountLine)[2], debugBuild)
    /\ diskPc' = IF diskOut'.kind = "panic" THEN "panicked" ELSE "lines"
    /\ UNCHANGED <<mounts, mountLine, statbuf>>
    /\ UNCHANGED notDisks

\* line 323: collect
CollectDisks ==
    /\ diskPc = "lines"
    /\ mounts.left = 0
    /\ diskPc' = "done"
    /\ UNCHANGED <<mounts, mountLine, statbuf, diskOut>>
    /\ UNCHANGED notDisks

DiskNext ==
    \/ ReadMounts
    \/ \E line \in MountLines : FilterLine(line)
    \/ \E buf \in StatBufs : Statvfs(buf)
    \/ ComputeUsage
    \/ CollectDisks

-----------------------------------------------------------------------------
(* memory(): the regex over /proc/meminfo and the kilobyte arithmetic.     *)

DigitChars == <<"0", "1", "2", "3", "4", "5", "6", "7", "8", "9">>
Digits == Range(DigitChars)
DigitVal(c) == (CHOOSE i \in 1..Len(DigitChars) : DigitChars[i] = c) - 1

\* The characters of the modelled texts that \W matches
NonWord == {" ", "\t", "\n", "\r", ":", ".", "@", "/", "(", ")", "=", "\""}

R_TOTAL == <<"M", "e", "m", "T", "o", "t", "a", "l", ":">>
R_AVAIL == <<"M", "e", "m", "A", "v", "a", "i", "l", "a", "b", "l", "e", ":">>

\* Regex Mem(Total|Available):\W*(\d*), line 209, through captures_iter:
\* the list of group 2 of the successive non-overlapping matches
RECURSIVE Captures(_)
Captures(s) ==
    IF s = <<>> THEN <<>>
    ELSE LET pre == IF StartsWith(s, R_TOTAL) THEN Len(R_TOTAL)
                    ELSE IF StartsWith(s, R_AVAIL) THEN Len(R_AVAIL)
                    ELSE 0
         IN  IF pre = 0 THEN Captures(Tail(s))
             ELSE LET afterW == TrimStartIn(SubSeq(s, pre + 1, Len(s)), NonWord)
                      rest == TrimStartIn(afterW, Digits)
                  IN  <<SubSeq(afterW, 1, Len(afterW) - Len(rest))>> \o Captures(rest)

RECURSIVE DecVal(_)
DecVal(d) ==
    IF d = <<>> THEN 0
    ELSE 10 * DecVal(SubSeq(d, 1, Len(d) - 1)) + DigitVal(d[Len(d)])

\* str::parse::<u64>: an error for no digits and for a value out of range
ParseU64(d) ==
    IF d = <<>> \/ Len(d) > 6 \/ (\E i \in 1..Len(d) : d[i] \notin Digits) THEN [ok |-> FALSE, v |-> 0]
    ELSE IF DecVal(d) > WordMax THEN [ok |-> FALSE, v |-> 0]
    ELSE [ok |-> TRUE, v |-> DecVal(d)]

MemNone == [kind |-> "none", used |-> 0, total |-> 0]
MemAbsent == [kind |-> "absent", used |-> 0, total |-> 0]
MemPanic == [kind |-> "panic", used |-> 0, total |-> 0]

\* x << 10 on a u64: the bits shifted out are lost, in every build
Shl10(x) == (x * 1024) % (WordMax + 1)

\* (caps.0 - caps.1) << 10 with the subtraction wrapping
UsedWrapping(c0, c1) == Shl10((c0 - c1) % (WordMax + 1))

\* memory(), lines 209-220.  collect_tuple pulls the first two items and
\* asks for a third, so the first three captures go through parse().unwrap()
Memory(file, debug) ==
    IF ~file.readable THEN MemAbsent
    ELSE LET caps == Captures(file.text)
             pulled == IF Len(caps) < 3 THEN Len(caps) ELSE 3
         IN  IF \E i \in 1..pulled : ~ParseU64(caps[i]).ok THEN MemPanic
             ELSE IF Len(caps) # 2 THEN MemAbsent
             ELSE LET c0 == ParseU64(caps[1]).v
                      c1 == ParseU64(caps[2]).v
                  IN  IF c1 > c0 /\ debug THEN MemPanic
                      ELSE [kind |-> "value", used |-> UsedWrapping(c0, c1),
                            total |-> Shl10(c0)]

MemLines == {<<"M", "e", "m", "T", "o", "t", "a", "l", ":", " ", "3", " ", "k", "B">>,
             <<"M", "e", "m", "A", "v", "a", "i", "l", "a", "b", "l", "e", ":", " ", "1", " ", "k", "B">>,
             <<"M", "e", "m", "F", "r", "e", "e", ":", " ", "2", " ", "k", "B">>,
             <<"M", "e", "m", "A", "v", "a", "i", "l", "a", "b", "l", "e", ":", " ", "5", " ", "k", "B">>,
             <<"M", "e", "m", "T", "o", "t", "a", "l", ":", " ", "7", " ", "k", "B">>,
             <<"M", "e", "m", "T", "o", "t", "a", "l", ":", " ", "k", "B">>,
             <<"M", "e", "m", "T", "o", "t", "a", "l", ":", " ", "9", "9", "9", "9", " ", "k", "B">>}

MemFiles ==
    {Unreadable} \cup {Readable(JoinLines(ls, TRUE)) : ls \in SeqsUpTo(MemLines, MaxTextLines)}

MemInit ==
    /\ meminfo \in MemFiles
    /\ memOut = MemNone
    /\ memPc = "start"

MemoryCall ==
    /\ memPc = "start"
    /\ memOut' = Memory(meminfo, debugBuild)
    /\ memPc' = "done"
    /\ UNCHANGED meminfo
    /\ UNCHANGED notMemory

MemNext == MemoryCall

-----------------------------------------------------------------------------
(* cpu(): the two named lines of /proc/cpuinfo and the format string.      *)

C_MODEL == <<"m", "o", "d", "e", "l", " ", "n", "a", "m", "e">>
C_CORES == <<"c", "p", "u", " ", "c", "o", "r", "e", "s">>

\* Iterator::find: [some |-> FALSE] is None
FindLine(ls, prefix) ==
    IF \E i \in 1..Len(ls) : StartsWith(ls[i], prefix)
    THEN [some |-> TRUE,
          line |-> ls[CHOOSE i \in 1..Len(ls) :
                        /\ StartsWith(ls[i], prefix)
                        /\ \A j \in 1..(i - 1) : ~StartsWith(ls[j], prefix)]]
    ELSE [some |-> FALSE, line |-> <<>>]

\* The format with both halves of the model trimmed
CpuFormatTrimmed(m0, cores, m1) ==
    Trim(m0) \o <<" ", "(">> \o cores \o <<")", " ", "@", " ">> \o Trim(m1) \o <<")">>

\* arcstr::format!("{} ({cores}) @ {})", model.0, model.1), line 178
CpuFormat(m0, cores, m1) ==
    m0 \o <<" ", "(">> \o cores \o <<")", " ", "@", " ">> \o m1 \o <<")">>

\* cpu(), lines 163-178
Cpu(file) ==
    IF ~file.readable THEN Absent
    ELSE LET ls == Lines(file.text)
             ml == FindLine(ls, C_MODEL)
         IN  IF ~ml.some \/ ~SplitOnce(ml.line, ":").some THEN Absent
             ELSE LET model == Trim(SplitOnce(ml.line, ":").r)
                      cl == FindLine(ls, C_CORES)
                  IN  IF ~cl.some \/ ~SplitOnce(cl.line, ":").some THEN Absent
                      ELSE LET cores == Trim(SplitOnce(cl.line, ":").r)
                               halves == SplitOnce(model, "@")
                           IN  IF ~halves.some THEN Absent
                               ELSE Value(CpuFormat(halves.l, cores, halves.r))

CL_EXAMPLE == <<"m", "o", "d", "e", "l", " ", "n", "a", "m", "e", " ", ":", " ", "E", "x", "a", "m", "p", "l", "e", " ", "C", "P", "U", " ", "@", " ", "3", ".", "0", "0", "G", "H", "z">>
CL_CORES8 == <<"c", "p", "u", " ", "c", "o", "r", "e", "s", " ", ":", " ", "8">>
CpuLines == {CL_EXAMPLE, CL_CORES8,
             <<"m", "o", "d", "e", "l", " ", "n", "a", "m", "e", " ", ":", " ", "P", "l", "a", "i", "n", " ", "C", "P", "U">>,
             <<"m", "o", "d", "e", "l", " ", "n", "a", "m", "e">>,
             <<"p", "r", "o", "c", "e", "s", "s", "o", "r", " ", ":", " ", "0">>,
             <<"c", "p", "u", " ", "c", "o", "r", "e", "s", "	", ":", " ", "4">>,
             <<"m", "o", "d", "e", "l", " ", "n", "a", "m", "e", "	", ":", " ", "A", "@", "B">>}

CpuFiles ==
    {Unreadable} \cup {Readable(JoinLines(ls, TRUE)) : ls \in SeqsUpTo(CpuLines, MaxTextLines)}

CpuInit ==
    /\ cpuinfo \in CpuFiles
    /\ cpuOut = NoResult
    /\ cpuPc = "start"

CpuCall ==
    /\ cpuPc = "start"
    /\ cpuOut' = Cpu(cpuinfo)
    /\ cpuPc' = "done"
    /\ UNCHANGED cpuinfo
    /\ UNCHANGED notCpu

CpuNext == CpuCall

-----------------------------------------------------------------------------
(* The specifications: one per probe operation, the other operations'      *)
(* state held at its initial value.                                        *)

ReleaseIdle ==
    /\ osReleaseFile = Unreadable
    /\ machine = <<>>
    /\ once = "INCOMPLETE"
    /\ closureRuns = 0
    /\ populator = NoProbe
    /\ os_release = [p \in Probes |-> {}]
    /\ writer = [p \in Probes |-> NoThread]
    /\ readers = [p \in Probes |-> 0]
    /\ poisoned = [p \in Probes |-> FALSE]
    /\ pc = [t \in Threads |-> "idle"]
    /\ probe = [t \in Threads |-> "a"]
    /\ query = [t \in Threads |-> "os"]
    /\ calls = [t \in Threads |-> 0]
    /\ waited = [t \in Threads |-> FALSE]
    /\ pending = [t \in Threads |-> <<>>]
    /\ obs = [t \in Threads |-> NoObs]
    /\ result = [t \in Threads |-> NoResult]

IpIdle ==
    /\ platform = "linux"
    /\ ifaddrs = <<>>
    /\ addrs = 0
    /\ ipv4_addrs = <<>>
    /\ ipv6_addrs = <<>>
    /\ ipPc = "idle"

DiskIdle ==
    /\ mounts = [readable |-> FALSE, left |-> 0]
    /\ mountLine = <<>>
    /\ statbuf = NoStat
    /\ diskOut = DiskNone
    /\ diskPc = "idle"

MemIdle ==
    /\ meminfo = Unreadable
    /\ memOut = MemNone
    /\ memPc = "idle"

CpuIdle ==
    /\ cpuinfo = Unreadable
    /\ cpuOut = NoResult
    /\ cpuPc = "idle"

\* os() and id() from several threads on several probes
Init == ReleaseInit /\ IpIdle /\ DiskIdle /\ MemIdle /\ CpuIdle /\ debugBuild = FALSE
Next == ReleaseNext
Spec == Init /\ [][Next]_vars

\* ip()
InitIp == IpInit /\ ReleaseIdle /\ DiskIdle /\ MemIdle /\ CpuIdle /\ debugBuild = FALSE
NextIp == IpNext
SpecIp == InitIp /\ [][NextIp]_vars

\* disks(), in a debug and in a release build
InitDisks == DiskInit /\ ReleaseIdle /\ IpIdle /\ MemIdle /\ CpuIdle /\ debugBuild \in BOOLEAN
NextDisks == DiskNext
SpecDisks == InitDisks /\ [][NextDisks]_vars

\* memory(), in a debug and in a release build
InitMemory == MemInit /\ ReleaseIdle /\ IpIdle /\ DiskIdle /\ CpuIdle /\ debugBuild \in BOOLEAN
NextMemory == MemNext
SpecMemory == InitMemory /\ [][NextMemory]_vars

\* cpu()
InitCpu == CpuInit /\ ReleaseIdle /\ IpIdle /\ DiskIdle /\ MemIdle /\ debugBuild = FALSE
NextCpu == CpuNext
SpecCpu == InitCpu /\ [][NextCpu]_vars

-----------------------------------------------------------------------------
(* Properties of the os-release cache.                                     *)

\* The map a completed population leaves in the populating probe
FullMap == MapExtend({}, ParsedPairs(osReleaseFile.text))

\* C1: among threads racing on their first os() / id(), the call_once
\* closure is entered at most once, and whatever map a reader's guard sees
\* is never partial: on the probe that was populated it is the whole map.
C1_PopulatedOnceNeverPartial ==
    /\ closureRuns <= 1
    /\ \A t \in Threads :
          obs[t].seen =>
             /\ obs[t].m \in {{}, FullMap}
             /\ probe[t] = populator => obs[t].m = FullMap

\* C1 witness: a thread that parked in call_once while another populated the
\* same probe went on to read a map of at least two keys
C1_Witness ==
    \E t \in Threads :
        /\ waited[t]
        /\ obs[t].seen
        /\ probe[t] = populator
        /\ Cardinality(obs[t].m) >= 2

\* C2: with an unreadable release descriptor, population is skipped without
\* an error reaching the caller, the map stays empty, the read is not
\* retried, and os() returns absent on every call.
C2_UnreadableCollapsesToAbsent ==
    ~osReleaseFile.readable =>
        /\ \A p \in Probes : os_release[p] = {}
        /\ closureRuns <= 1
        /\ \A t \in Threads :
              /\ result[t] # Panic
              /\ (pc[t] = "done" /\ query[t] = "os") => result[t] = Absent

\* C3: a failure while computing a field (here: malformed data in a readable
\* descriptor) resolves that field to absent and leaves no poisoned
\* once-guard or lock behind for later queries.
C3_FailureLeavesNoLastingState ==
    osReleaseFile.readable =>
        /\ once # "POISONED"
        /\ \A p \in Probes : ~poisoned[p]
        /\ \A t \in Threads : result[t] # Panic

\* The reference parse of C9: empty lines skipped, split at the first '=',
\* exactly one layer of surrounding double quotes removed
RefStripOneLayer(v) ==
    IF Len(v) >= 2 /\ v[1] = "\"" /\ v[Len(v)] = "\""
    THEN SubSeq(v, 2, Len(v) - 1) ELSE v

RECURSIVE RefPairs(_)
RefPairs(ls) ==
    IF ls = <<>> THEN <<>>
    ELSE IF Head(ls) = <<>> THEN RefPairs(Tail(ls))
    ELSE <<<<SplitOnce(Head(ls), "=").l, RefStripOneLayer(SplitOnce(Head(ls), "=").r)>>>>
         \o RefPairs(Tail(ls))

RefMap(text) == MapExtend({}, RefPairs(Lines(text)))

\* Every non-empty line holds a '='
RefParsable(text) ==
    \A i \in 1..Len(Lines(text)) :
        Lines(text)[i] # <<>> => SplitOnce(Lines(text)[i], "=").some

\* C9: once population has run on a descriptor whose non-empty lines all
\* hold '=', the populated probe's map is the reference parse; for the
\* NAME/VERSION/ID example id() is `ubuntu` and os() combines Ubuntu, 22.04
\* and the machine architecture.
C9_PopulationIsReferenceParse ==
    /\ (osReleaseFile.readable /\ RefParsable(osReleaseFile.text)
        /\ once \in {"COMPLETE", "POISONED"})
          => os_release[populator] = RefMap(osReleaseFile.text)
    /\ \A t \in Threads :
          (osReleaseFile = ExampleRelease /\ pc[t] = "done" /\ probe[t] = populator)
             => result[t] =
                  IF query[t] = "id" THEN Value(<<"u", "b", "u", "n", "t", "u">>)
                  ELSE Value(<<"U", "b", "u", "n", "t", "u", " ", "2", "2", ".", "0", "4", " ">> \o machine)

\* C10: once os() or id() has returned on some probe and the descriptor is
\* readable, that probe's own map is fully populated, whichever probe ran
\* the population.
C10_EveryProbePopulated ==
    \A t \in Threads :
        (pc[t] = "done" /\ osReleaseFile.readable)
           => os_release[probe[t]] = FullMap

-----------------------------------------------------------------------------
(* Properties of ip().                                                     *)

\* A record none of the four skip rules of the claim excludes
Eligible(r) ==
    /\ ~r.null
    /\ HasBit(r.flags, IFF_RUNNING)
    /\ ~HasBit(r.flags, IFF_LOOPBACK)
    /\ platform = "linux" => ~HasBit(r.flags, IFA_F_DEPRECATED)

\* fe80::/10: the first ten bits are 1111111010
InFe80Slash10(b) == b[1] = 254 /\ b[2] \div 64 = 2

NoDuplicates(s) == \A i, j \in 1..Len(s) : i # j => s[i] # s[j]

\* C4: every address in the sets comes from a visited record that is
\* present, running, not loopback and (Linux) not deprecated; no address of
\* fe80::/10 is in the IPv6 set; an address is in a set once.
C4_AddressSetsFiltered ==
    /\ \A a \in Range(ipv4_addrs) :
          \E i \in 1..(addrs - 1) :
              Eligible(ifaddrs[i]) /\ ifaddrs[i].family = "AF_INET" /\ ifaddrs[i].bytes = a
    /\ \A a \in Range(ipv6_addrs) :
          \E i \in 1..(addrs - 1) :
              Eligible(ifaddrs[i]) /\ ifaddrs[i].family = "AF_INET6" /\ ifaddrs[i].bytes = a
    /\ \A a \in Range(ipv6_addrs) : ~InFe80Slash10(a)
    /\ NoDuplicates(ipv4_addrs)
    /\ NoDuplicates(ipv6_addrs)

-----------------------------------------------------------------------------
(* Properties of disks().                                                  *)

DeviceOf(line) == IF Fields(line) = <<>> THEN <<>> ELSE Fields(line)[1]
MountOf(line) == IF Len(Fields(line)) < 2 THEN <<>> ELSE Fields(line)[2]

\* The rule as C5 words it: TRUE when the line is kept
C5_RuleAsClaimed(line) ==
    LET pseudo == \/ \E p \in {P_LOOP, P_RAM, P_FD} : StartsWith(DeviceOf(line), p)
                  \/ StartsWith(MountOf(line), P_SNAP)
        pool == StartsWith(MountOf(line), P_RPOOL) \/ StartsWith(MountOf(line), P_DRVFS)
    IN  IF pseudo THEN pool ELSE (StartsWith(DeviceOf(line), P_DEV) \/ pool)

\* C5 as stated: a pseudo-device or snap line is dropped unless its mount
\* path has a pool/passthrough prefix; another line is dropped when its
\* device is not under /dev/, unless its mount path has such a prefix.
C5_Original ==
    diskOut.kind # "none" =>
        ((diskOut.kind # "filtered") <=> C5_RuleAsClaimed(mountLine))

\* C5 amended: a line that begins with /dev/loop, /dev/ram or /dev/fd, or
\* that holds /var/snap anywhere, is dropped whatever else it holds; any
\* other line is dropped unless it begins with /dev/, /rpool/ or drvfs.
C5_Amended ==
    diskOut.kind # "none" =>
        ((diskOut.kind = "filtered") <=>
            \/ \E p \in {P_LOOP, P_RAM, P_FD} : StartsWith(mountLine, p)
            \/ Contains(mountLine, P_SNAP)
            \/ ~(\E p \in {P_DEV, P_RPOOL, P_DRVFS} : StartsWith(mountLine, p)))

\* C5 witness: a drvfs line that holds /var/snap has been dropped
C5_Witness ==
    /\ diskOut.kind = "filtered"
    /\ StartsWith(mountLine, P_DRVFS)
    /\ Contains(mountLine, P_SNAP)

\* C6: a result is emitted only if total - available neither underflows nor
\* is zero and neither product overflows; any other candidate is dropped
\* without error; an emitted result holds the exact products, with
\* 0 < usedBytes <= totalBytes.
C6_EmittedUsageExact ==
    /\ diskOut.kind # "panic"
    /\ diskOut.kind = "emit" =>
          LET total == statbuf.f_blocks
              avail == statbuf.f_bavail
              bsize == statbuf.f_bsize
          IN  /\ avail <= total
              /\ total - avail # 0
              /\ (total - avail) * bsize <= WordMax
              /\ total * bsize <= WordMax
              /\ diskOut.used = (total - avail) * bsize
              /\ diskOut.total = total * bsize
              /\ 0 < diskOut.used
              /\ diskOut.used <= diskOut.total

-----------------------------------------------------------------------------
(* Properties of memory().                                                 *)

LinesNamed(text, name) == {i \in 1..Len(Lines(text)) : StartsWith(Lines(text)[i], name)}

\* The count of the one line of that name: the field after the name
NamedCount(text, name) ==
    LET line == Lines(text)[CHOOSE i \in LinesNamed(text, name) : TRUE]
    IN  IF Len(Fields(line)) < 2 THEN ParseU64(<<>>) ELSE ParseU64(Fields(line)[2])

\* C7: with one MemTotal line (T kB) and one MemAvailable line (A kB),
\* memory() reports used = (T - A) * 1024 and total = T * 1024; when a field
\* does not parse or the arithmetic would underflow or overflow, the result
\* is absent, never an error or a wrapped value.
C7_MemoryByName ==
    (/\ memPc = "done"
     /\ meminfo.readable
     /\ Cardinality(LinesNamed(meminfo.text, R_TOTAL)) = 1
     /\ Cardinality(LinesNamed(meminfo.text, R_AVAIL)) = 1)
    => LET T == NamedCount(meminfo.text, R_TOTAL)
           A == NamedCount(meminfo.text, R_AVAIL)
       IN  IF T.ok /\ A.ok /\ A.v <= T.v /\ T.v * 1024 <= WordMax
           THEN memOut = [kind |-> "value", used |-> (T.v - A.v) * 1024,
                          total |-> T.v * 1024]
           ELSE memOut = MemAbsent

-----------------------------------------------------------------------------
(* Properties of cpu().                                                    *)

\* Index of the first occurrence of sub in s, 0 when there is none
IndexOfSub(s, sub) ==
    IF Contains(s, sub)
    THEN CHOOSE i \in 1..(Len(s) - Len(sub) + 1) :
            /\ SubSeq(s, i, i + Len(sub) - 1) = sub
            /\ \A j \in 1..(i - 1) : SubSeq(s, j, j + Len(sub) - 1) # sub
    ELSE 0

CP_MODEL == <<"m", "o", "d", "e", "l", " ", "n", "a", "m", "e", " ", ":", " ">>
CP_CORES == <<"c", "p", "u", " ", "c", "o", "r", "e", "s", " ", ":", " ">>
CP_AT == <<" ", "@", " ">>

CpuModelLine == FindLine(Lines(cpuinfo.text), C_MODEL)
CpuCoresLine == FindLine(Lines(cpuinfo.text), C_CORES)

\* Either line is missing, or the model line holds no '@'
CpuMustBeAbsent ==
    \/ ~cpuinfo.readable
    \/ ~CpuModelLine.some
    \/ ~CpuCoresLine.some
    \/ "@" \notin Range(CpuModelLine.line)

\* C8 as stated: `model name : M @ F` and `cpu cores : N` render exactly
\* `M (N) @ F)` with single spaces; a missing line or a model without '@'
\* gives absent.
C8_Original ==
    cpuPc = "done" =>
        IF CpuMustBeAbsent THEN cpuOut = Absent
        ELSE (/\ StartsWith(CpuModelLine.line, CP_MODEL)
              /\ Contains(CpuModelLine.line, CP_AT)
              /\ StartsWith(CpuCoresLine.line, CP_CORES))
             => LET rest == SubSeq(CpuModelLine.line, Len(CP_MODEL) + 1, Len(CpuModelLine.line))
                    k == IndexOfSub(rest, CP_AT)
                    M == SubSeq(rest, 1, k - 1)
                    F == SubSeq(rest, k + Len(CP_AT), Len(rest))
                    N == SubSeq(CpuCoresLine.line, Len(CP_CORES) + 1, Len(CpuCoresLine.line))
                IN  cpuOut = Value(M \o <<" ", "(">> \o N \o <<")", " ", "@", " ">> \o F \o <<")">>)

\* C8 amended: with V the trimmed text after the first ':' of the model line
\* and N that of the cores line, cpu() renders the text of V before its
\* first '@', then ` (N) @ `, then the text of V after that '@', then `)`,
\* V's own blanks around '@' kept: `Example CPU  (8) @  3.00GHz)` for the
\* example.  A missing line or a model without '@' gives absent.
C8_Amended ==
    cpuPc = "done" =>
        IF CpuMustBeAbsent THEN cpuOut = Absent
        ELSE (":" \in Range(CpuModelLine.line) /\ ":" \in Range(CpuCoresLine.line))
             => /\ cpuOut.kind = "value"
                /\ LET V == Trim(SplitOnce(CpuModelLine.line, ":").r)
                       N == Trim(SplitOnce(CpuCoresLine.line, ":").r)
                   IN  \E k \in 1..Len(V) :
                          /\ V[k] = "@"
                          /\ \A j \in 1..(k - 1) : V[j] # "@"
                          /\ cpuOut.v = SubSeq(V, 1, k - 1) \o <<" ", "(">> \o N
                                        \o <<")", " ", "@", " ">>
                                        \o SubSeq(V, k + 1, Len(V)) \o <<")">>
                /\ (CpuModelLine.line = CL_EXAMPLE /\ CpuCoresLine.line = CL_CORES8)
                      => cpuOut.v = <<"E", "x", "a", "m", "p", "l", "e", " ", "C", "P", "U", " ", " ", "(", "8", ")", " ", "@", " ", " ", "3", ".", "0", "0", "G", "H", "z", ")">>

\* C8 witness: the example descriptor has been rendered
C8_Witness ==
    /\ cpuPc = "done"
    /\ CpuModelLine.line = CL_EXAMPLE
    /\ CpuCoresLine.line = CL_CORES8
    /\ cpuOut.kind = "value"

=============================================================================
